---- MODULE Spec2Model ----
(***************************************************************************)
(* embedded-layout: alignment (align.rs), view composition (component.rs)  *)
(* and padding (padding.rs) over embedded-graphics rectangles.             *)
(*                                                                         *)
(* A view is a Rectangle, a Component of two views or a Padding around a   *)
(* view.  The state is one target view, one reference view, the last       *)
(* operation applied, and the draw target written by draw_styled.          *)
(*                                                                         *)
(* i32 and u32 are modelled WordBits wide: every signed operation is       *)
(* reduced into the signed range (what a release build computes) and a     *)
(* separate predicate says whether the operation left the range (where a   *)
(* debug build panics).                                                    *)
(***************************************************************************)
EXTENDS Integers, Sequences, FiniteSets, TLC

VARIABLES target, reference, last, canvas, result, fault

vars == <<target, reference, last, canvas, result, fault>>

---------------------------------------------------------------------------
(* Bounds of the model *)

\* width of the machine word standing for i32 / u32
WordBits == 8
\* coordinates of the rectangles the runs start from
MaxCoord == 2
\* largest width / height of the rectangles the runs start from
MaxLen == 3

---------------------------------------------------------------------------
(* Machine integers *)

I32_MAX == 2 ^ (WordBits - 1) - 1
I32_MIN == -(2 ^ (WordBits - 1))
U32_MAX == 2 ^ WordBits - 1

InI32(n) == I32_MIN <= n /\ n <= I32_MAX

\* two's complement reduction of a mathematical integer into i32
WrapI32(n) == ((n - I32_MIN) % (2 ^ WordBits)) + I32_MIN

\* reduction of a mathematical integer into u32
WrapU32(n) == n % (2 ^ WordBits)

\* `u as i32`
as_i32(u) == WrapI32(u)

\* `i as u32`
as_u32(i) == WrapU32(i)

\* i32 `/`: truncates toward zero
div_i32(a, b) == IF a >= 0 THEN a \div b ELSE -((-a) \div b)

abs_i32(a) == IF a >= 0 THEN a ELSE WrapI32(-a)

saturating_add(a, b) ==
    IF a + b > I32_MAX THEN I32_MAX ELSE IF a + b < I32_MIN THEN I32_MIN ELSE a + b

saturating_sub(a, b) ==
    IF a - b > I32_MAX THEN I32_MAX ELSE IF a - b < I32_MIN THEN I32_MIN ELSE a - b

Min(a, b) == IF a <= b THEN a ELSE b
Max(a, b) == IF a >= b THEN a ELSE b

---------------------------------------------------------------------------
(* Point, Size, Rectangle (embedded-graphics, as the crate uses them) *)

Point(x, y) == [x |-> x, y |-> y]
Size(w, h) == [width |-> w, height |-> h]

Rectangle(tl, sz) == [kind |-> "rect", top_left |-> tl, size |-> sz]

component_min(p, q) == Point(Min(p.x, q.x), Min(p.y, q.y))
component_max(p, q) == Point(Max(p.x, q.x), Max(p.y, q.y))

\* Point + Point
point_add(p, q) == Point(WrapI32(p.x + q.x), WrapI32(p.y + q.y))
point_add_overflows(p, q) == ~InI32(p.x + q.x) \/ ~InI32(p.y + q.y)

None == [some |-> FALSE]
Some(v) == [some |-> TRUE, value |-> v]
unwrap_or(o, d) == IF o.some THEN o.value ELSE d

\* Rectangle::bottom_right: absent when either extent is zero
bottom_right(r) ==
    IF r.size.width > 0 /\ r.size.height > 0
    THEN Some(Point(WrapI32(WrapI32(r.top_left.x + as_i32(r.size.width)) - 1),
                    WrapI32(WrapI32(r.top_left.y + as_i32(r.size.height)) - 1)))
    ELSE None

bottom_right_overflows(r) ==
    /\ r.size.width > 0 /\ r.size.height > 0
    /\ \/ r.size.width > I32_MAX \/ r.size.height > I32_MAX
       \/ ~InI32(r.top_left.x + as_i32(r.size.width))
       \/ ~InI32(r.top_left.y + as_i32(r.size.height))
       \/ ~InI32(WrapI32(r.top_left.x + as_i32(r.size.width)) - 1)
       \/ ~InI32(WrapI32(r.top_left.y + as_i32(r.size.height)) - 1)

\* Rectangle::with_corners: the rectangle that contains both corner points
with_corners(c1, c2) ==
    Rectangle(Point(Min(c1.x, c2.x), Min(c1.y, c2.y)),
              Size(WrapU32(as_u32(abs_i32(WrapI32(c1.x - c2.x))) + 1),
                   WrapU32(as_u32(abs_i32(WrapI32(c1.y - c2.y))) + 1)))

with_corners_overflows(c1, c2) ==
    \/ ~InI32(c1.x - c2.x) \/ ~InI32(c1.y - c2.y)
    \/ WrapI32(c1.x - c2.x) = I32_MIN \/ WrapI32(c1.y - c2.y) = I32_MIN

---------------------------------------------------------------------------
(* Views: Rectangle | Component<A, B> | Padding<C> *)

Component(a, b) == [kind |-> "component", child_a |-> a, child_b |-> b]

Padding(top, right, bottom, left, child) ==
    [kind |-> "padding", top |-> top, right |-> right, bottom |-> bottom,
     left |-> left, child |-> child]

\* Padding constructors
Padding_zero(child) == Padding(0, 0, 0, 0, child)
Padding_horizontal(p, child) == Padding(0, p, 0, p, child)
Padding_vertical(p, child) == Padding(p, 0, p, 0, child)
Padding_vertical_and_horizontal(v, h, child) == Padding(v, h, v, h, child)
Padding_all(p, child) == Padding(p, p, p, p, child)
Padding_each(top, right, bottom, left, child) == Padding(top, right, bottom, left, child)

\* rect_with_padding with wrapping instead of saturating edge arithmetic
rect_with_padding_wrapping(rect, top, right, bottom, left) ==
    LET br == unwrap_or(bottom_right(rect), rect.top_left)
    IN with_corners(Point(WrapI32(rect.top_left.x - left), WrapI32(rect.top_left.y - top)),
                    Point(WrapI32(br.x + right), WrapI32(br.y + bottom)))

\* rect_with_padding measuring from the exclusive corner top_left + size
rect_with_padding_exclusive(rect, top, right, bottom, left) ==
    LET rect_right == WrapI32(rect.top_left.x + as_i32(rect.size.width))
        rect_bottom == WrapI32(rect.top_left.y + as_i32(rect.size.height))
    IN with_corners(Point(saturating_sub(rect.top_left.x, left),
                          saturating_sub(rect.top_left.y, top)),
                    Point(saturating_add(rect_right, right),
                          saturating_add(rect_bottom, bottom)))

\* padding.rs rect_with_padding
rect_with_padding(rect, top, right, bottom, left) ==
    LET rect_top == rect.top_left.y
        rect_right == unwrap_or(bottom_right(rect), rect.top_left).x
        rect_bottom == unwrap_or(bottom_right(rect), rect.top_left).y
        rect_left == rect.top_left.x
        final_top == saturating_sub(rect_top, top)
        final_right == saturating_add(rect_right, right)
        final_bottom == saturating_add(rect_bottom, bottom)
        final_left == saturating_sub(rect_left, left)
    IN with_corners(Point(final_left, final_top), Point(final_right, final_bottom))

rect_with_padding_overflows(rect, top, right, bottom, left) ==
    LET br == unwrap_or(bottom_right(rect), rect.top_left)
    IN \/ bottom_right_overflows(rect)
       \/ with_corners_overflows(
              Point(saturating_sub(rect.top_left.x, left), saturating_sub(rect.top_left.y, top)),
              Point(saturating_add(br.x, right), saturating_add(br.y, bottom)))

\* Dimensions::bounding_box, dispatched on the kind of view
RECURSIVE bounding_box(_)

\* Component::bounding_box ignoring a degenerate second child
Component_bounding_box_skips_degenerate(self) ==
    LET bb_a == bounding_box(self.child_a)
        bb_b == bounding_box(self.child_b)
    IN IF bottom_right(bb_b).some
       THEN with_corners(component_min(bb_a.top_left, bb_b.top_left),
                         component_max(unwrap_or(bottom_right(bb_a), bb_a.top_left),
                                       bottom_right(bb_b).value))
       ELSE bb_a

\* impl Dimensions for Component
Component_bounding_box(self) ==
    LET bb_a == bounding_box(self.child_a)
        bb_b == bounding_box(self.child_b)
        top_left == component_min(bb_a.top_left, bb_b.top_left)
        bottom_right_ == component_max(unwrap_or(bottom_right(bb_a), bb_a.top_left),
                                       unwrap_or(bottom_right(bb_b), bb_b.top_left))
    IN with_corners(top_left, bottom_right_)

\* Padding::bounding_box taking a negative margin as no margin
Padding_bounding_box_no_shrink(self) ==
    rect_with_padding(bounding_box(self.child), Max(self.top, 0), Max(self.right, 0),
                      Max(self.bottom, 0), Max(self.left, 0))

\* impl Dimensions for Padding
Padding_bounding_box(self) ==
    rect_with_padding(bounding_box(self.child), self.top, self.right, self.bottom, self.left)

bounding_box(v) ==
    CASE v.kind = "rect" -> v
      [] v.kind = "component" -> Component_bounding_box(v)
      [] v.kind = "padding" -> Padding_bounding_box(v)

\* whether computing the bounding box leaves i32
RECURSIVE bounding_box_overflows(_)
bounding_box_overflows(v) ==
    CASE v.kind = "rect" -> FALSE
      [] v.kind = "component" ->
             LET bb_a == bounding_box(v.child_a)
                 bb_b == bounding_box(v.child_b)
             IN \/ bounding_box_overflows(v.child_a)
                \/ bounding_box_overflows(v.child_b)
                \/ bottom_right_overflows(bb_a)
                \/ bottom_right_overflows(bb_b)
                \/ with_corners_overflows(
                       component_min(bb_a.top_left, bb_b.top_left),
                       component_max(unwrap_or(bottom_right(bb_a), bb_a.top_left),
                                     unwrap_or(bottom_right(bb_b), bb_b.top_left)))
      [] v.kind = "padding" ->
             \/ bounding_box_overflows(v.child)
             \/ rect_with_padding_overflows(bounding_box(v.child),
                                            v.top, v.right, v.bottom, v.left)

\* OffsetOutline for Rectangle (embedded-graphics): the rectangle grown by
\* offset on every side about its centre (saturating in its size)
rect_offset(r, off) ==
    LET grow(len) == IF off >= 0 THEN Min(len + 2 * off, U32_MAX) ELSE Max(len + 2 * off, 0)
        half(len) == Max(len - 1, 0) \div 2
        w == grow(r.size.width)
        h == grow(r.size.height)
    IN Rectangle(Point(WrapI32(WrapI32(r.top_left.x + half(r.size.width)) - half(w)),
                       WrapI32(WrapI32(r.top_left.y + half(r.size.height)) - half(h))),
                 Size(w, h))

\* whether offsetting the outline of a rectangle leaves i32
rect_offset_overflows(r, off) ==
    LET grow(len) == IF off >= 0 THEN Min(len + 2 * off, U32_MAX) ELSE Max(len + 2 * off, 0)
        half(len) == Max(len - 1, 0) \div 2
    IN \/ ~InI32(r.top_left.x + half(r.size.width))
       \/ ~InI32(r.top_left.y + half(r.size.height))
       \/ ~InI32(WrapI32(r.top_left.x + half(r.size.width)) - half(grow(r.size.width)))
       \/ ~InI32(WrapI32(r.top_left.y + half(r.size.height)) - half(grow(r.size.height)))

\* StyledDimensions::styled_bounding_box, dispatched on the kind of view; a
\* style is its outside stroke width, by which a styled Rectangle is grown
RECURSIVE styled_bounding_box(_, _)

\* impl StyledDimensions for Component
Component_styled_bounding_box(self, style) ==
    LET a == styled_bounding_box(self.child_a, style)
        b == styled_bounding_box(self.child_b, style)
        top_left == component_min(a.top_left, b.top_left)
        bottom_right_ == component_max(unwrap_or(bottom_right(a), a.top_left),
                                       unwrap_or(bottom_right(b), b.top_left))
    IN with_corners(top_left, bottom_right_)

\* impl StyledDimensions for Padding
Padding_styled_bounding_box(self, style) ==
    rect_with_padding(styled_bounding_box(self.child, style),
                      self.top, self.right, self.bottom, self.left)

styled_bounding_box(v, style) ==
    CASE v.kind = "rect" -> rect_offset(v, style)
      [] v.kind = "component" -> Component_styled_bounding_box(v, style)
      [] v.kind = "padding" -> Padding_styled_bounding_box(v, style)

\* whether computing the styled bounding box leaves i32
RECURSIVE styled_bounding_box_overflows(_, _)
styled_bounding_box_overflows(v, style) ==
    CASE v.kind = "rect" -> rect_offset_overflows(v, style)
      [] v.kind = "component" ->
             LET a == styled_bounding_box(v.child_a, style)
                 b == styled_bounding_box(v.child_b, style)
             IN \/ styled_bounding_box_overflows(v.child_a, style)
                \/ styled_bounding_box_overflows(v.child_b, style)
                \/ bottom_right_overflows(a)
                \/ bottom_right_overflows(b)
                \/ with_corners_overflows(
                       component_min(a.top_left, b.top_left),
                       component_max(unwrap_or(bottom_right(a), a.top_left),
                                     unwrap_or(bottom_right(b), b.top_left)))
      [] v.kind = "padding" ->
             \/ styled_bounding_box_overflows(v.child, style)
             \/ rect_with_padding_overflows(styled_bounding_box(v.child, style),
                                            v.top, v.right, v.bottom, v.left)

\* OffsetOutline::offset, dispatched on the kind of view
RECURSIVE offset_outline(_, _)

\* impl OffsetOutline for Component
Component_offset(self, off) ==
    Component(offset_outline(self.child_a, off), offset_outline(self.child_b, off))

\* impl OffsetOutline for Padding
Padding_offset(self, off) ==
    Padding(self.top, self.right, self.bottom, self.bottom, offset_outline(self.child, off))

offset_outline(v, off) ==
    CASE v.kind = "rect" -> rect_offset(v, off)
      [] v.kind = "component" -> Component_offset(v, off)
      [] v.kind = "padding" -> Padding_offset(v, off)

\* Transform::translate (value-returning), dispatched on the kind of view
RECURSIVE translate(_, _)

\* Transform for Rectangle (embedded-graphics)
Rectangle_translate(self, by) == Rectangle(point_add(self.top_left, by), self.size)

\* impl Transform for Component
Component_translate(self, by) ==
    Component(translate(self.child_a, by), translate(self.child_b, by))

\* impl Transform for Padding
Padding_translate(self, by) ==
    Padding(self.top, self.right, self.bottom, self.bottom, translate(self.child, by))

translate(v, by) ==
    CASE v.kind = "rect" -> Rectangle_translate(v, by)
      [] v.kind = "component" -> Component_translate(v, by)
      [] v.kind = "padding" -> Padding_translate(v, by)

\* Transform::translate_mut (in place), dispatched on the kind of view
RECURSIVE translate_mut(_, _)

Rectangle_translate_mut(self, by) == [self EXCEPT !.top_left = point_add(self.top_left, by)]

Component_translate_mut(self, by) ==
    [self EXCEPT !.child_a = translate_mut(self.child_a, by),
                 !.child_b = translate_mut(self.child_b, by)]

Padding_translate_mut(self, by) == [self EXCEPT !.child = translate_mut(self.child, by)]

translate_mut(v, by) ==
    CASE v.kind = "rect" -> Rectangle_translate_mut(v, by)
      [] v.kind = "component" -> Component_translate_mut(v, by)
      [] v.kind = "padding" -> Padding_translate_mut(v, by)

\* whether a translation leaves i32
RECURSIVE translate_overflows(_, _)
translate_overflows(v, by) ==
    CASE v.kind = "rect" -> point_add_overflows(v.top_left, by)
      [] v.kind = "component" ->
             translate_overflows(v.child_a, by) \/ translate_overflows(v.child_b, by)
      [] v.kind = "padding" -> translate_overflows(v.child, by)

---------------------------------------------------------------------------
(* align.rs *)

AlignmentPosition == {"Start", "Center", "End", "Before", "After"}

\* Option<AlignmentPosition>
OptPosition == AlignmentPosition \cup {"None"}

\* struct Alignment, with its public fields
Alignment == [vertical : OptPosition, horizontal : OptPosition]

Alignment_bidirectional(v, h) == [vertical |-> v, horizontal |-> h]
Alignment_horizontal(h) == [vertical |-> "None", horizontal |-> h]
Alignment_vertical(v) == [vertical |-> v, horizontal |-> "None"]
Alignment_center == [vertical |-> "Center", horizontal |-> "Center"]

\* offset_axis with the two halves of Center merged into one division
offset_axis_center_merged(pos, t_lo, t_len, r_lo, r_len) ==
    CASE pos = "Start" -> WrapI32(r_lo - t_lo)
      [] pos = "Center" ->
             WrapI32(WrapI32(r_lo - t_lo) + div_i32(WrapI32(as_i32(r_len) - as_i32(t_len)), 2))
      [] pos = "End" ->
             WrapI32(WrapI32(r_lo + as_i32(r_len)) - WrapI32(t_lo + as_i32(t_len)))
      [] pos = "Before" -> WrapI32(r_lo - WrapI32(t_lo + as_i32(t_len)))
      [] pos = "After" -> WrapI32(WrapI32(r_lo + as_i32(r_len)) - t_lo)
      [] pos = "None" -> 0

\* offset_axis with After leaving a gap of one unit after the reference
offset_axis_after_gap(pos, t_lo, t_len, r_lo, r_len) ==
    CASE pos = "Start" -> WrapI32(r_lo - t_lo)
      [] pos = "Center" ->
             WrapI32(WrapI32(r_lo + div_i32(as_i32(r_len), 2))
                     - WrapI32(t_lo + div_i32(as_i32(t_len), 2)))
      [] pos = "End" ->
             WrapI32(WrapI32(r_lo + as_i32(r_len)) - WrapI32(t_lo + as_i32(t_len)))
      [] pos = "Before" -> WrapI32(r_lo - WrapI32(t_lo + as_i32(t_len)))
      [] pos = "After" -> WrapI32(WrapI32(WrapI32(r_lo + as_i32(r_len)) + 1) - t_lo)
      [] pos = "None" -> 0

\* offset_axis with Before measured from the target's near edge
offset_axis_before_near(pos, t_lo, t_len, r_lo, r_len) ==
    CASE pos = "Start" -> WrapI32(r_lo - t_lo)
      [] pos = "Center" ->
             WrapI32(WrapI32(r_lo + div_i32(as_i32(r_len), 2))
                     - WrapI32(t_lo + div_i32(as_i32(t_len), 2)))
      [] pos = "End" ->
             WrapI32(WrapI32(r_lo + as_i32(r_len)) - WrapI32(t_lo + as_i32(t_len)))
      [] pos = "Before" -> WrapI32(r_lo - t_lo)
      [] pos = "After" -> WrapI32(WrapI32(r_lo + as_i32(r_len)) - t_lo)
      [] pos = "None" -> 0

\* one arm of the match in Alignment::offset; lo / len are top_left.x / size.width
\* for the horizontal axis and top_left.y / size.height for the vertical one
offset_axis(pos, t_lo, t_len, r_lo, r_len) ==
    CASE pos = "Start" -> WrapI32(r_lo - t_lo)
      [] pos = "Center" ->
             WrapI32(WrapI32(r_lo + div_i32(as_i32(r_len), 2))
                     - WrapI32(t_lo + div_i32(as_i32(t_len), 2)))
      [] pos = "End" ->
             WrapI32(WrapI32(r_lo + as_i32(r_len)) - WrapI32(t_lo + as_i32(t_len)))
      [] pos = "Before" -> WrapI32(r_lo - WrapI32(t_lo + as_i32(t_len)))
      [] pos = "After" -> WrapI32(WrapI32(r_lo + as_i32(r_len)) - t_lo)
      [] pos = "None" -> 0

\* whether an arm leaves i32: a cast of a size above I32_MAX, or a sum / difference
offset_axis_overflows(pos, t_lo, t_len, r_lo, r_len) ==
    CASE pos = "Start" -> ~InI32(r_lo - t_lo)
      [] pos = "Center" ->
             \/ r_len > I32_MAX \/ t_len > I32_MAX
             \/ ~InI32(r_lo + div_i32(as_i32(r_len), 2))
             \/ ~InI32(t_lo + div_i32(as_i32(t_len), 2))
             \/ ~InI32(WrapI32(r_lo + div_i32(as_i32(r_len), 2))
                       - WrapI32(t_lo + div_i32(as_i32(t_len), 2)))
      [] pos = "End" ->
             \/ r_len > I32_MAX \/ t_len > I32_MAX
             \/ ~InI32(r_lo + as_i32(r_len))
             \/ ~InI32(t_lo + as_i32(t_len))
             \/ ~InI32(WrapI32(r_lo + as_i32(r_len)) - WrapI32(t_lo + as_i32(t_len)))
      [] pos = "Before" ->
             \/ t_len > I32_MAX
             \/ ~InI32(t_lo + as_i32(t_len))
             \/ ~InI32(r_lo - WrapI32(t_lo + as_i32(t_len)))
      [] pos = "After" ->
             \/ r_len > I32_MAX
             \/ ~InI32(r_lo + as_i32(r_len))
             \/ ~InI32(WrapI32(r_lo + as_i32(r_len)) - t_lo)
      [] pos = "None" -> FALSE

\* offset matching on self.horizontal for both axes
offset_horizontal_twice(alignment, tgt, ref) ==
    Point(offset_axis(alignment.horizontal, tgt.top_left.x, tgt.size.width,
                      ref.top_left.x, ref.size.width),
          offset_axis(alignment.horizontal, tgt.top_left.y, tgt.size.height,
                      ref.top_left.y, ref.size.height))

\* Alignment::offset(&self, target, reference)
offset(alignment, tgt, ref) ==
    Point(offset_axis(alignment.horizontal, tgt.top_left.x, tgt.size.width,
                      ref.top_left.x, ref.size.width),
          offset_axis(alignment.vertical, tgt.top_left.y, tgt.size.height,
                      ref.top_left.y, ref.size.height))

offset_overflows(alignment, tgt, ref) ==
    \/ offset_axis_overflows(alignment.horizontal, tgt.top_left.x, tgt.size.width,
                             ref.top_left.x, ref.size.width)
    \/ offset_axis_overflows(alignment.vertical, tgt.top_left.y, tgt.size.height,
                             ref.top_left.y, ref.size.height)

\* align_to_mut passing the two bounding boxes to offset in the wrong order
align_to_mut_swapped(self, ref, alignment) ==
    LET self_bounds == bounding_box(self)
        reference_bounds == bounding_box(ref)
    IN translate_mut(self, offset(alignment, reference_bounds, self_bounds))

\* align_to_mut measuring the target once more after it has been moved
align_to_mut_twice(self, ref, alignment) ==
    LET self_bounds == bounding_box(self)
        reference_bounds == bounding_box(ref)
        moved == translate_mut(self, offset(alignment, self_bounds, reference_bounds))
    IN translate_mut(moved, offset(alignment, self_bounds, reference_bounds))

\* Align::align_to_mut
align_to_mut(self, ref, alignment) ==
    LET self_bounds == bounding_box(self)
        reference_bounds == bounding_box(ref)
    IN translate_mut(self, offset(alignment, self_bounds, reference_bounds))

\* Align::align_to: align_to_mut on the moved-in value, which is returned
align_to(self, ref, alignment) == align_to_mut(self, ref, alignment)

align_overflows(self, ref, alignment) ==
    \/ bounding_box_overflows(self)
    \/ bounding_box_overflows(ref)
    \/ offset_overflows(alignment, bounding_box(self), bounding_box(ref))
    \/ translate_overflows(self, offset(alignment, bounding_box(self), bounding_box(ref)))

---------------------------------------------------------------------------
(* layout/linear/spacing.rs *)

\* struct Tight; struct FixedMargin(pub i32)
Tight == [kind |-> "Tight"]
FixedMargin(margin) == [kind |-> "FixedMargin", margin |-> margin]

\* impl ElementSpacing for Tight
Tight_modify_measurement(self, measured_size, objects) == measured_size

Tight_modify_placement(self, n, total_size) == 0

\* impl ElementSpacing for FixedMargin
FixedMargin_modify_measurement(self, measured_size, objects) ==
    IF objects = 0
    THEN measured_size
    ELSE as_u32(WrapI32(as_i32(measured_size) + WrapI32(self.margin * as_i32(objects - 1))))

FixedMargin_modify_placement(self, n, total_size) ==
    IF n = 0 THEN 0 ELSE self.margin

\* ElementSpacing::modify_measurement, dispatched on the strategy
modify_measurement(self, measured_size, objects) ==
    CASE self.kind = "Tight" -> Tight_modify_measurement(self, measured_size, objects)
      [] self.kind = "FixedMargin" ->
             FixedMargin_modify_measurement(self, measured_size, objects)

\* ElementSpacing::modify_placement, dispatched on the strategy
modify_placement(self, n, total_size) ==
    CASE self.kind = "Tight" -> Tight_modify_placement(self, n, total_size)
      [] self.kind = "FixedMargin" -> FixedMargin_modify_placement(self, n, total_size)

\* whether the product or the sum in FixedMargin::modify_measurement leaves i32
modify_measurement_overflows(self, measured_size, objects) ==
    /\ self.kind = "FixedMargin"
    /\ objects > 0
    /\ \/ ~InI32(self.margin * as_i32(objects - 1))
       \/ ~InI32(as_i32(measured_size) + WrapI32(self.margin * as_i32(objects - 1)))

---------------------------------------------------------------------------
(* Drawing (component.rs / padding.rs StyledDrawable) *)

\* The draw target is the sequence of primitives rasterised so far.  The
\* target refuses its fail_at-th draw call (0: none).  A draw returns
\* [ok, value, canvas, calls]: Ok(output) or Err(error), the target after
\* the call and the number of primitive draw calls made.
Ok(v, c, n) == [ok |-> TRUE, value |-> v, canvas |-> c, calls |-> n]
Err(e, c, n) == [ok |-> FALSE, value |-> e, canvas |-> c, calls |-> n]

\* the error of the draw target for its n-th call
DrawError(n) == <<"draw_error", n>>

\* StyledDrawable::draw_styled, dispatched on the kind of view
RECURSIVE draw_styled(_, _, _, _)

\* a styled Rectangle (embedded-graphics): one draw call on the target
Rectangle_draw_styled(self, cv, calls, fail_at) ==
    IF calls + 1 = fail_at
    THEN Err(DrawError(calls + 1), cv, calls + 1)
    ELSE Ok("unit", Append(cv, self), calls + 1)

\* Component::draw_styled drawing child B before child A
Component_draw_styled_b_first(self, cv, calls, fail_at) ==
    LET b == draw_styled(self.child_b, cv, calls, fail_at)
    IN IF ~b.ok THEN b
       ELSE LET a == draw_styled(self.child_a, b.canvas, b.calls, fail_at)
            IN IF ~a.ok THEN a
               ELSE Ok(<<a.value, b.value>>, a.canvas, a.calls)

\* Component::draw_styled drawing child B even after child A's draw failed
Component_draw_styled_no_short_circuit(self, cv, calls, fail_at) ==
    LET a == draw_styled(self.child_a, cv, calls, fail_at)
        b == draw_styled(self.child_b, a.canvas, a.calls, fail_at)
    IN IF ~a.ok THEN Err(a.value, b.canvas, b.calls)
       ELSE IF ~b.ok THEN b
       ELSE Ok(<<a.value, b.value>>, b.canvas, b.calls)

\* impl StyledDrawable for Component
Component_draw_styled(self, cv, calls, fail_at) ==
    LET a == draw_styled(self.child_a, cv, calls, fail_at)
    IN IF ~a.ok THEN a
       ELSE LET b == draw_styled(self.child_b, a.canvas, a.calls, fail_at)
            IN IF ~b.ok THEN b
               ELSE Ok(<<a.value, b.value>>, b.canvas, b.calls)

\* impl StyledDrawable for Padding
Padding_draw_styled(self, cv, calls, fail_at) == draw_styled(self.child, cv, calls, fail_at)

draw_styled(v, cv, calls, fail_at) ==
    CASE v.kind = "rect" -> Rectangle_draw_styled(v, cv, calls, fail_at)
      [] v.kind = "component" -> Component_draw_styled(v, cv, calls, fail_at)
      [] v.kind = "padding" -> Padding_draw_styled(v, cv, calls, fail_at)

\* the primitives of a view, depth-first, left to right
RECURSIVE Leaves(_)
Leaves(v) ==
    CASE v.kind = "rect" -> <<v>>
      [] v.kind = "component" -> Leaves(v.child_a) \o Leaves(v.child_b)
      [] v.kind = "padding" -> Leaves(v.child)

\* ContainsPoint::contains, dispatched on the kind of view
RECURSIVE contains(_, _)

\* ContainsPoint for Rectangle (embedded-graphics): an empty rectangle
\* contains no point
Rectangle_contains(self, point) ==
    IF point.x >= self.top_left.x /\ point.y >= self.top_left.y
    THEN IF bottom_right(self).some
         THEN point.x <= bottom_right(self).value.x /\ point.y <= bottom_right(self).value.y
         ELSE FALSE
    ELSE FALSE

\* Component::contains asking child A only
Component_contains_first_only(self, point) == contains(self.child_a, point)

\* impl ContainsPoint for Component
Component_contains(self, point) ==
    contains(self.child_a, point) \/ contains(self.child_b, point)

\* impl ContainsPoint for Padding
Padding_contains(self, point) == contains(self.child, point)

contains(v, point) ==
    CASE v.kind = "rect" -> Rectangle_contains(v, point)
      [] v.kind = "component" -> Component_contains(v, point)
      [] v.kind = "padding" -> Padding_contains(v, point)

---------------------------------------------------------------------------
(* The views the runs start from *)

Coords == {-MaxCoord, MaxCoord}
Lens == 0..MaxLen

Rects == {Rectangle(Point(x, y), Size(w, h)) : x \in Coords, y \in Coords,
                                                w \in Lens, h \in Lens}

\* a zero-size rectangle, a zero-width one, a single pixel and two larger ones
SampleRects ==
    { Rectangle(Point(-MaxCoord, 0), Size(0, 0)),
      Rectangle(Point(1, -1), Size(0, MaxLen)),
      Rectangle(Point(MaxCoord, MaxCoord), Size(1, 1)),
      Rectangle(Point(0, -MaxCoord), Size(MaxLen, 2)),
      Rectangle(Point(-1, 1), Size(2, MaxLen + 1)) }

\* (top, right, bottom, left)
Margins == { <<0, 0, 0, 0>>, <<1, 2, 0, 1>>, <<-1, -1, -1, -1>>, <<2, 0, 1, -MaxLen>> }

Components == {Component(a, b) : a \in SampleRects, b \in SampleRects}

Paddings == {Padding_each(m[1], m[2], m[3], m[4], c) : m \in Margins, c \in SampleRects}

Nested ==
    {Component(Component(a, b), c) :
        a \in {Rectangle(Point(0, -MaxCoord), Size(MaxLen, 2))},
        b \in {Rectangle(Point(-MaxCoord, 0), Size(0, 0)),
               Rectangle(Point(MaxCoord, MaxCoord), Size(1, 1))},
        c \in {Component(Rectangle(Point(-1, 1), Size(2, MaxLen + 1)),
                         Rectangle(Point(1, -1), Size(0, MaxLen))),
               Padding_each(1, 2, 0, 1, Rectangle(Point(MaxCoord, MaxCoord), Size(1, 1)))}}
    \cup {Padding_all(1, Component(a, b)) :
        a \in {Rectangle(Point(0, -MaxCoord), Size(MaxLen, 2))},
        b \in {Rectangle(Point(-MaxCoord, 0), Size(0, 0)),
               Rectangle(Point(-1, 1), Size(2, MaxLen + 1))}}

Views == SampleRects \cup Components \cup Paddings \cup Nested

Vectors == {Point(0, 0), Point(MaxCoord + 1, -MaxCoord), Point(-(MaxCoord + 1), MaxCoord)}

\* outside stroke widths
Styles == {0, 1}

\* the points a view is asked about
Points == {Point(x, y) : x \in -MaxCoord .. MaxCoord + 1, y \in -MaxCoord .. MaxCoord + 1}

\* outline offsets
Offsets == {-1, 1}

NoAlignment == [vertical |-> "None", horizontal |-> "None"]

\* the rectangle of the crate's padding tests, and two rectangles next to
\* the ends of the i32 range
PaddingRects ==
    SampleRects
    \cup { Rectangle(Point(10, 13), Size(5, 8)),
           Rectangle(Point(I32_MIN + 1, 0), Size(2, 1)),
           Rectangle(Point(I32_MAX - 3, I32_MAX - 3), Size(2, 2)) }

\* (top, right, bottom, left)
PaddingMargins ==
    Margins \cup { <<2, 12, 57, 9>>, <<-MaxLen, -MaxLen, -MaxLen, -MaxLen>>,
                   <<0, -1, 0, -1>>, <<-2, 0, -2, 0>> }

\* the uniform margins of the round trips
RoundTripMargins == -MaxCoord .. MaxCoord + 1

PaddingViews ==
    {Padding_each(m[1], m[2], m[3], m[4], c) : m \in PaddingMargins, c \in PaddingRects}
    \cup {Padding_zero(c) : c \in PaddingRects \cup Nested}
    \cup {Padding_horizontal(p, c) : p \in {-1, 2}, c \in PaddingRects}
    \cup {Padding_vertical(p, c) : p \in {-1, 2}, c \in PaddingRects}
    \cup {Padding_vertical_and_horizontal(-1, 2, c) : c \in PaddingRects}
    \cup {Padding_all(-n, Padding_all(n, r)) : n \in RoundTripMargins, r \in PaddingRects}

-------------------------------------------------------------------------------------------------------------------------------------------------
(* State machine: a run builds its views and applies one operation to the  *)
(* target, as the crate's tests do.  last.before is the target the         *)
(* operation was applied to and last.by the vector it was moved by (for an *)
(* alignment, the value Alignment::offset returned).                       *)

Start(tgt, ref) ==
    /\ target = tgt
    /\ reference = ref
    /\ last = [op |-> "new", alignment |-> NoAlignment, by |-> Point(0, 0), before |-> tgt]
    /\ canvas = << >>
    /\ result = [op |-> "none"]
    /\ fault = "none"

\* composed views against a few references
Init == \E tgt \in Views, ref \in SampleRects : Start(tgt, ref)

\* rectangles at the ends of the i32 / u32 ranges
EdgeCoords == {I32_MIN, 0, I32_MAX}
EdgeLens == {0, 1, I32_MAX + 1, U32_MAX}
EdgeRects == {Rectangle(Point(x, 0), Size(w, 1)) : x \in EdgeCoords, w \in EdgeLens}

EdgeViews ==
    EdgeRects
    \cup {Padding_all(p, r) : p \in {I32_MIN, I32_MAX}, r \in EdgeRects}
    \cup {Component(a, b) : a \in EdgeRects,
                            b \in {Rectangle(Point(I32_MIN, 0), Size(1, 1)),
                                   Rectangle(Point(I32_MAX, 0), Size(1, 1))}}

InitEdge == \E tgt \in EdgeViews, ref \in EdgeRects : Start(tgt, ref)

\* the spacing strategies, the measured sizes and the object counts
Spacings == {Tight} \cup {FixedMargin(g) : g \in (-MaxCoord .. MaxCoord) \cup {I32_MIN, I32_MAX}}
MeasuredSizes == (0 .. MaxLen) \cup {I32_MAX, I32_MAX + 1, U32_MAX}
ObjectCounts == 0 .. MaxLen

\* a spacing strategy
InitSpacing ==
    \E spacing \in Spacings : Start(spacing, Rectangle(Point(0, 0), Size(1, 1)))

\* padded views
InitPadding ==
    \E tgt \in PaddingViews : Start(tgt, Rectangle(Point(0, 0), Size(1, 1)))

\* every pair of rectangles, and the composed views
InitAlign ==
    \/ \E tgt \in Rects, ref \in Rects : Start(tgt, ref)
    \/ \E tgt \in Views, ref \in SampleRects : Start(tgt, ref)

\* a computation that leaves i32 panics (debug build) or wraps (release build)
Outcomes(overflows) == IF overflows THEN {"panic", "wrapped"} ELSE {"none"}

Fresh == last.op = "new"

\* target.align_to_mut(&reference, &alignment)
AlignToMut(alignment) ==
    /\ Fresh
    /\ \E outcome \in Outcomes(align_overflows(target, reference, alignment)) :
        /\ fault' = outcome
        /\ target' = IF outcome = "panic" THEN target
                     ELSE align_to_mut(target, reference, alignment)
    /\ last' = [op |-> "align_to_mut", alignment |-> alignment,
                by |-> offset(alignment, bounding_box(target), bounding_box(reference)),
                before |-> target]
    /\ UNCHANGED <<reference, canvas, result>>

\* target = target.align_to(&reference, &alignment)
AlignTo(alignment) ==
    /\ Fresh
    /\ \E outcome \in Outcomes(align_overflows(target, reference, alignment)) :
        /\ fault' = outcome
        /\ target' = IF outcome = "panic" THEN target
                     ELSE align_to(target, reference, alignment)
    /\ last' = [op |-> "align_to", alignment |-> alignment,
                by |-> offset(alignment, bounding_box(target), bounding_box(reference)),
                before |-> target]
    /\ UNCHANGED <<reference, canvas, result>>

\* target = target.translate(by)
Translate(by) ==
    /\ Fresh
    /\ \E outcome \in Outcomes(translate_overflows(target, by)) :
        /\ fault' = outcome
        /\ target' = IF outcome = "panic" THEN target ELSE translate(target, by)
    /\ last' = [op |-> "translate", alignment |-> NoAlignment, by |-> by, before |-> target]
    /\ UNCHANGED <<reference, canvas, result>>

\* target.translate_mut(by)
TranslateMut(by) ==
    /\ Fresh
    /\ \E outcome \in Outcomes(translate_overflows(target, by)) :
        /\ fault' = outcome
        /\ target' = IF outcome = "panic" THEN target ELSE translate_mut(target, by)
    /\ last' = [op |-> "translate_mut", alignment |-> NoAlignment, by |-> by,
                before |-> target]
    /\ UNCHANGED <<reference, canvas, result>>

\* target.draw_styled(&style, &mut canvas); the draw target refuses its
\* fail_at-th draw call (0: none)
Draw(fail_at) ==
    /\ Fresh
    /\ LET r == draw_styled(target, canvas, 0, fail_at)
       IN /\ canvas' = r.canvas
          /\ result' = [op |-> "draw_styled", ok |-> r.ok, value |-> r.value,
                        fail_at |-> fail_at, calls |-> r.calls]
    /\ last' = [op |-> "draw_styled", alignment |-> NoAlignment, by |-> Point(0, 0),
                before |-> target]
    /\ UNCHANGED <<target, reference, fault>>

\* target.bounding_box()
BoundingBox ==
    /\ Fresh
    /\ \E outcome \in Outcomes(bounding_box_overflows(target)) :
        /\ fault' = outcome
        /\ result' = IF outcome = "panic" THEN [op |-> "panic"]
                     ELSE [op |-> "bounding_box", value |-> bounding_box(target)]
    /\ last' = [op |-> "bounding_box", alignment |-> NoAlignment, by |-> Point(0, 0),
                before |-> target]
    /\ UNCHANGED <<target, reference, canvas>>

\* target.styled_bounding_box(&style)
StyledBoundingBox(style) ==
    /\ Fresh
    /\ \E outcome \in Outcomes(styled_bounding_box_overflows(target, style)) :
        /\ fault' = outcome
        /\ result' = IF outcome = "panic" THEN [op |-> "panic"]
                     ELSE [op |-> "styled_bounding_box", style |-> style,
                           value |-> styled_bounding_box(target, style)]
    /\ last' = [op |-> "styled_bounding_box", alignment |-> NoAlignment, by |-> Point(0, 0),
                before |-> target]
    /\ UNCHANGED <<target, reference, canvas>>

\* target = target.offset(off)
Offset(off) ==
    /\ Fresh
    /\ target' = offset_outline(target, off)
    /\ last' = [op |-> "offset", alignment |-> NoAlignment, by |-> Point(0, 0),
                before |-> target, off |-> off]
    /\ UNCHANGED <<reference, canvas, result, fault>>

\* target.contains(point)
Contains(point) ==
    /\ Fresh
    /\ result' = [op |-> "contains", point |-> point, value |-> contains(target, point)]
    /\ last' = [op |-> "contains", alignment |-> NoAlignment, by |-> Point(0, 0),
                before |-> target]
    /\ UNCHANGED <<target, reference, canvas, fault>>

\* target.modify_measurement(measured_size, objects)
ModifyMeasurement(measured_size, objects) ==
    /\ Fresh
    /\ \E outcome \in Outcomes(modify_measurement_overflows(target, measured_size, objects)) :
        /\ fault' = outcome
        /\ result' = IF outcome = "panic" THEN [op |-> "panic"]
                     ELSE [op |-> "modify_measurement",
                           value |-> modify_measurement(target, measured_size, objects)]
    /\ last' = [op |-> "modify_measurement", alignment |-> NoAlignment, by |-> Point(0, 0),
                before |-> target, measured_size |-> measured_size, objects |-> objects]
    /\ UNCHANGED <<target, reference, canvas>>

\* target.modify_placement(n, total_size)
ModifyPlacement(n, total_size) ==
    /\ Fresh
    /\ result' = [op |-> "modify_placement",
                  value |-> modify_placement(target, n, total_size)]
    /\ last' = [op |-> "modify_placement", alignment |-> NoAlignment, by |-> Point(0, 0),
                before |-> target, n |-> n, total_size |-> total_size]
    /\ UNCHANGED <<target, reference, canvas, fault>>

NextAlign ==
    \/ \E a \in Alignment : AlignToMut(a)
    \/ \E a \in Alignment : AlignTo(a)

Next ==
    \/ \E a \in Alignment : AlignToMut(a)
    \/ \E a \in Alignment : AlignTo(a)
    \/ \E by \in Vectors : Translate(by)
    \/ \E by \in Vectors : TranslateMut(by)
    \/ \E k \in 0..Len(Leaves(target)) : Draw(k)
    \/ \E p \in Points : Contains(p)
    \/ \E off \in Offsets : Offset(off)

NextPadding ==
    \/ BoundingBox
    \/ \E style \in Styles : StyledBoundingBox(style)

Spec == Init /\ [][Next]_vars

SpecAlign == InitAlign /\ [][NextAlign]_vars

SpecEdge == InitEdge /\ [][NextAlign]_vars

SpecPadding == InitPadding /\ [][NextPadding]_vars

NextSpacing ==
    \/ \E sz \in MeasuredSizes, n \in ObjectCounts : ModifyMeasurement(sz, n)
    \/ \E n \in ObjectCounts, sz \in MeasuredSizes : ModifyPlacement(n, sz)

SpecSpacing == InitSpacing /\ [][NextSpacing]_vars

---------------------------------------------------------------------------
(* Properties of the alignment engine *)

Aligned == last.op \in {"align_to", "align_to_mut"}

\* the bounding boxes Alignment::offset was called with, and the target's afterwards
T0 == bounding_box(last.before)
T1 == bounding_box(target)
R0 == bounding_box(reference)

Lo(r, axis) == IF axis = "horizontal" THEN r.top_left.x ELSE r.top_left.y
Extent(r, axis) == IF axis = "horizontal" THEN r.size.width ELSE r.size.height
Axes == {"horizontal", "vertical"}

\* the table of offsets, over the integers
TableOffset(pos, t_lo, t_len, r_lo, r_len) ==
    CASE pos = "Start" -> r_lo - t_lo
      [] pos = "Center" -> (r_lo + (r_len \div 2)) - (t_lo + (t_len \div 2))
      [] pos = "End" -> (r_lo + r_len) - (t_lo + t_len)
      [] pos = "Before" -> r_lo - (t_lo + t_len)
      [] pos = "After" -> (r_lo + r_len) - t_lo
      [] pos = "None" -> 0

\* C1: Alignment::offset returns, on each axis independently, the offset of
\* the table for that axis' position, computed from the target's and the
\* reference's near edge and extent on that axis; zero extents are not
\* special-cased.
C1_OffsetTable ==
    Aligned =>
        /\ last.by.x = TableOffset(last.alignment.horizontal,
                                   T0.top_left.x, T0.size.width,
                                   R0.top_left.x, R0.size.width)
        /\ last.by.y = TableOffset(last.alignment.vertical,
                                   T0.top_left.y, T0.size.height,
                                   R0.top_left.y, R0.size.height)

\* a Center alignment of an odd-width target against a zero-size reference,
\* on the horizontal axis only
C1_Witness ==
    /\ Aligned
    /\ last.before.kind = "rect" /\ reference.kind = "rect"
    /\ last.alignment.horizontal = "Center" /\ last.alignment.vertical = "Before"
    /\ T0.size.width = 3 /\ T0.size.height = 0
    /\ R0.size.width = 0 /\ R0.size.height = 2
    /\ last.by.x # 0 /\ last.by.y # 0

\* anchor_point(BottomRight) on one axis: lo + len - 1, or lo when len = 0
FarEdge(r, axis) ==
    IF Extent(r, axis) = 0 THEN Lo(r, axis) ELSE Lo(r, axis) + Extent(r, axis) - 1

Position(axis) == IF axis = "horizontal" THEN last.alignment.horizontal
                  ELSE last.alignment.vertical

\* C2 as stated: after a Start / Center / End alignment the target's near
\* edge / midpoint / far edge (bottom-right coordinate, the near edge for a
\* zero extent) coincides with the reference's.
C2_AnchorsCoincide ==
    (Aligned /\ last.before.kind = "rect" /\ reference.kind = "rect") =>
        \A axis \in Axes :
            /\ Position(axis) = "Start" => Lo(T1, axis) = Lo(R0, axis)
            /\ Position(axis) = "Center" =>
                   Lo(T1, axis) + (Extent(T1, axis) \div 2)
                       = Lo(R0, axis) + (Extent(R0, axis) \div 2)
            /\ Position(axis) = "End" => FarEdge(T1, axis) = FarEdge(R0, axis)

\* C2 amended: Start and Center as stated; after End the ends lo + len of
\* target and reference coincide, so the bottom-right coordinates coincide
\* when both extents are zero or both are non-zero, and the target's is one
\* more than the reference's / one less when only the target's / only the
\* reference's extent is zero.
C2_AnchorsAmended ==
    (Aligned /\ last.before.kind = "rect" /\ reference.kind = "rect") =>
        \A axis \in Axes :
            /\ Position(axis) = "Start" => Lo(T1, axis) = Lo(R0, axis)
            /\ Position(axis) = "Center" =>
                   Lo(T1, axis) + (Extent(T1, axis) \div 2)
                       = Lo(R0, axis) + (Extent(R0, axis) \div 2)
            /\ Position(axis) = "End" =>
                   /\ Lo(T1, axis) + Extent(T1, axis) = Lo(R0, axis) + Extent(R0, axis)
                   /\ (Extent(T1, axis) = 0) = (Extent(R0, axis) = 0)
                          => FarEdge(T1, axis) = FarEdge(R0, axis)
                   /\ (Extent(T1, axis) = 0 /\ Extent(R0, axis) # 0)
                          => FarEdge(T1, axis) = FarEdge(R0, axis) + 1
                   /\ (Extent(T1, axis) # 0 /\ Extent(R0, axis) = 0)
                          => FarEdge(T1, axis) = FarEdge(R0, axis) - 1

\* a zero-width rectangle aligned End / Center to a wider reference: it was moved
C2_Witness ==
    /\ Aligned /\ last.before.kind = "rect" /\ reference.kind = "rect"
    /\ last.alignment.horizontal = "End" /\ last.alignment.vertical = "Center"
    /\ Extent(T1, "horizontal") = 0 /\ Extent(R0, "horizontal") = 2
    /\ Extent(T1, "vertical") = 3 /\ Extent(R0, "vertical") = 2
    /\ last.by.x # 0 /\ last.by.y # 0

\* C3 as stated: after an After alignment the target's near edge is the
\* reference's far edge (bottom-right coordinate, the near edge for a zero
\* extent) plus one.
C3_AfterFarEdgePlusOne ==
    (Aligned /\ last.before.kind = "rect" /\ reference.kind = "rect") =>
        \A axis \in Axes :
            Position(axis) = "After" => Lo(T1, axis) = FarEdge(R0, axis) + 1

\* C3 amended: after an After alignment the target's near edge is the
\* reference's lo + len: its far edge plus one when the reference's extent
\* is non-zero, and its far edge itself when the reference's extent is zero
\* (test_left_to_right_empty, second direction); the target's extent does
\* not matter.
C3_AfterAmended ==
    (Aligned /\ last.before.kind = "rect" /\ reference.kind = "rect") =>
        \A axis \in Axes :
            Position(axis) = "After" =>
                /\ Lo(T1, axis) = Lo(R0, axis) + Extent(R0, axis)
                /\ Extent(R0, axis) # 0 => Lo(T1, axis) = FarEdge(R0, axis) + 1
                /\ Extent(R0, axis) = 0 => Lo(T1, axis) = FarEdge(R0, axis)

\* a zero-extent target placed After a non-degenerate reference, and moved
C3_Witness ==
    /\ Aligned /\ last.before.kind = "rect" /\ reference.kind = "rect"
    /\ last.alignment.horizontal = "After" /\ last.alignment.vertical = "After"
    /\ Extent(T1, "horizontal") = 0 /\ Extent(R0, "horizontal") = 3
    /\ Extent(T1, "vertical") = 2 /\ Extent(R0, "vertical") = 0
    /\ last.by.x # 0 /\ last.by.y # 0

\* C4 as stated: after a Before alignment the target's far edge
\* (bottom-right coordinate, the near edge for a zero extent) is the
\* reference's near edge minus one.
C4_BeforeNearEdgeMinusOne ==
    (Aligned /\ last.before.kind = "rect" /\ reference.kind = "rect") =>
        \A axis \in Axes :
            Position(axis) = "Before" => FarEdge(T1, axis) = Lo(R0, axis) - 1

\* C4 amended: after a Before alignment the target's lo + len is the
\* reference's near edge: the target's far edge is the reference's near edge
\* minus one when the target's extent is non-zero, and the reference's near
\* edge itself when the target's extent is zero (test_right_to_left_empty).
C4_BeforeAmended ==
    (Aligned /\ last.before.kind = "rect" /\ reference.kind = "rect") =>
        \A axis \in Axes :
            Position(axis) = "Before" =>
                /\ Lo(T1, axis) + Extent(T1, axis) = Lo(R0, axis)
                /\ Extent(T1, axis) # 0 => FarEdge(T1, axis) = Lo(R0, axis) - 1
                /\ Extent(T1, axis) = 0 => FarEdge(T1, axis) = Lo(R0, axis)

\* targets of zero and of non-zero extent placed Before a reference, and moved
C4_Witness ==
    /\ Aligned /\ last.before.kind = "rect" /\ reference.kind = "rect"
    /\ last.alignment.horizontal = "Before" /\ last.alignment.vertical = "Before"
    /\ Extent(T1, "horizontal") = 0 /\ Extent(R0, "horizontal") = 1
    /\ Extent(T1, "vertical") = 3 /\ Extent(R0, "vertical") = 0
    /\ last.by.x # 0 /\ last.by.y # 0

PrimitiveSizes(v) == [i \in 1..Len(Leaves(v)) |-> Leaves(v)[i].size]

C7_NoOverflow == fault = "none"

---------------------------------------------------------------------------
(* Properties of view composition *)

\* a view and the views nested in it
RECURSIVE Subviews(_)
Subviews(v) ==
    CASE v.kind = "rect" -> {v}
      [] v.kind = "component" -> {v} \cup Subviews(v.child_a) \cup Subviews(v.child_b)
      [] v.kind = "padding" -> {v} \cup Subviews(v.child)

Degenerate(r) == r.size.width = 0 \/ r.size.height = 0

\* the bottom-right corner of a box, its top-left corner when it is degenerate
Corner(r) ==
    IF Degenerate(r) THEN r.top_left
    ELSE Point(r.top_left.x + r.size.width - 1, r.top_left.y + r.size.height - 1)

\* box is the union of b1 and b2
IsUnion(box, b1, b2) ==
    /\ box.top_left.x = Min(b1.top_left.x, b2.top_left.x)
    /\ box.top_left.y = Min(b1.top_left.y, b2.top_left.y)
    /\ ~Degenerate(box)
    /\ Corner(box).x = Max(Corner(b1).x, Corner(b2).x)
    /\ Corner(box).y = Max(Corner(b1).y, Corner(b2).y)

\* C8: the bounding box (and the styled bounding box) of a Component has as
\* top-left the component-wise minimum of its children's top-lefts and as
\* bottom-right the component-wise maximum of their bottom-rights, a
\* degenerate child's bottom-right being its top-left; the children may be
\* degenerate or Components themselves.
C8_UnionBox ==
    \A c \in Subviews(target) :
        c.kind = "component" =>
            /\ IsUnion(bounding_box(c), bounding_box(c.child_a), bounding_box(c.child_b))
            /\ \A style \in Styles :
                   IsUnion(styled_bounding_box(c, style),
                           styled_bounding_box(c.child_a, style),
                           styled_bounding_box(c.child_b, style))

\* a Component of a Component and a degenerate rectangle lying outside it,
\* after it has been moved
C8_Witness ==
    /\ last.op \in {"translate_mut", "align_to"}
    /\ target # last.before
    /\ target.kind = "component"
    /\ target.child_a.kind = "component"
    /\ Degenerate(bounding_box(target.child_a.child_b))
    /\ bounding_box(target) # bounding_box(target.child_a)
    /\ bounding_box(target) # bounding_box(target.child_b)

\* v moved by the vector by: every primitive's top-left shifted, all else kept
RECURSIVE Shifted(_, _)
Shifted(v, by) ==
    CASE v.kind = "rect" -> Rectangle(Point(v.top_left.x + by.x, v.top_left.y + by.y), v.size)
      [] v.kind = "component" -> Component(Shifted(v.child_a, by), Shifted(v.child_b, by))
      [] v.kind = "padding" ->
             Padding(v.top, v.right, v.bottom, v.left, Shifted(v.child, by))

\* C9: translate(v) and translate_mut(v) of a Component(a, b) both give
\* Component(a moved by v, b moved by v), and its bounding box is the
\* original one shifted by v, of the same size; whatever views a and b are.
C9_TranslateDistributes ==
    (last.op \in {"translate", "translate_mut"} /\ last.before.kind = "component") =>
        /\ target = Component(Shifted(last.before.child_a, last.by),
                              Shifted(last.before.child_b, last.by))
        /\ bounding_box(target) = Shifted(bounding_box(last.before), last.by)

\* the outputs of a successful draw: a pair for each Component
RECURSIVE Outputs(_)
Outputs(v) ==
    CASE v.kind = "rect" -> "unit"
      [] v.kind = "component" -> <<Outputs(v.child_a), Outputs(v.child_b)>>
      [] v.kind = "padding" -> Outputs(v.child)

\* C10: draw_styled draws child A before child B on the same target, the
\* primitives of a nested view depth-first, left to right; what was drawn
\* before a draw call failed stays on the target; when every draw succeeds
\* the result is the pair of the children's outputs.
C10_DrawOrder ==
    result.op = "draw_styled" =>
        LET all == Leaves(target)
            k == result.fail_at
        IN /\ k = 0 => (result.ok /\ canvas = all /\ result.value = Outputs(target))
           /\ k > 0 => (~result.ok /\ canvas = SubSeq(all, 1, k - 1))
           /\ (target.kind = "component" /\ k > Len(Leaves(target.child_a))) =>
                  SubSeq(canvas, 1, Len(Leaves(target.child_a))) = Leaves(target.child_a)

\* child A, itself a Component of two different primitives, was drawn and
\* child B's draw failed
C10_Witness ==
    /\ result.op = "draw_styled"
    /\ ~result.ok
    /\ target.kind = "component" /\ target.child_a.kind = "component"
    /\ canvas = Leaves(target.child_a)
    /\ Len(canvas) = 2 /\ canvas[1] # canvas[2]

\* C11: Component::draw_styled returns an error exactly when the draw of one
\* of its primitives fails; the error is that draw's error, unchanged; the
\* failing draw call is the last one made (no later child is drawn, nothing
\* is retried): when child A fails, nothing of child B reaches the target.
C11_DrawErrors ==
    (result.op = "draw_styled" /\ target.kind = "component") =>
        LET n == Len(Leaves(target))
            n_a == Len(Leaves(target.child_a))
            k == result.fail_at
        IN /\ (~result.ok) <=> (k \in 1..n)
           /\ ~result.ok =>
                  /\ result.value = DrawError(k)
                  /\ result.calls = k
                  /\ Len(canvas) = k - 1
           /\ (~result.ok /\ k <= n_a) =>
                  /\ result.calls <= n_a
                  /\ canvas = SubSeq(Leaves(target.child_a), 1, k - 1)

\* the first draw of child A, a Component, failed: the error of that draw
\* came back and neither A's second primitive nor child B was drawn
C11_Witness ==
    /\ result.op = "draw_styled"
    /\ target.kind = "component" /\ target.child_a.kind = "component"
    /\ result.fail_at = 1
    /\ ~result.ok
    /\ result.value = DrawError(1)
    /\ result.calls = 1
    /\ canvas = << >>

\* the point lies on a pixel of one of the view's primitives
Covers(v, p) ==
    \E i \in 1..Len(Leaves(v)) :
        LET r == Leaves(v)[i]
        IN /\ r.top_left.x <= p.x /\ p.x < r.top_left.x + r.size.width
           /\ r.top_left.y <= p.y /\ p.y < r.top_left.y + r.size.height

\* C12: the order of a Component's children does not matter for its
\* geometry: Component(a, b) and Component(b, a) have the same bounding box,
\* and Component(a, b) contains a point exactly when a or b (or both)
\* contains it, as Component(b, a) does.
C12_ChildOrder ==
    target.kind = "component" =>
        LET a == target.child_a
            b == target.child_b
        IN /\ bounding_box(target) = bounding_box(Component(b, a))
           /\ result.op = "contains" =>
                  /\ result.value = (Covers(a, result.point) \/ Covers(b, result.point))
                  /\ result.value = contains(Component(b, a), result.point)

\* a point of child B that child A does not contain was found in the Component
C12_Witness ==
    /\ result.op = "contains"
    /\ target.kind = "component"
    /\ result.value
    /\ ~contains(target.child_a, result.point)
    /\ contains(target.child_b, result.point)
    /\ bounding_box(target.child_a) # bounding_box(target.child_b)

---------------------------------------------------------------------------
(* Properties of the padding transform *)

\* n clamped to the i32 range
Clamp(n) == Max(I32_MIN, Min(I32_MAX, n))

\* box is the rectangle with the opposite corners c1 and c2
HasCorners(box, c1, c2) ==
    /\ box.top_left = Point(Min(c1.x, c2.x), Min(c1.y, c2.y))
    /\ ~Degenerate(box)
    /\ Corner(box) = Point(Max(c1.x, c2.x), Max(c1.y, c2.y))

\* the box of a child with the margins of the Padding p around it
IsPadded(box, child_box, p) ==
    HasCorners(box,
               Point(Clamp(child_box.top_left.x - p.left), Clamp(child_box.top_left.y - p.top)),
               Point(Clamp(Corner(child_box).x + p.right),
                     Clamp(Corner(child_box).y + p.bottom)))

\* the bounding box (or styled bounding box) of a Padding was computed
\* within the i32 range
Measured == result.op \in {"bounding_box", "styled_bounding_box"} /\ fault = "none"

TestRect == Rectangle(Point(10, 13), Size(5, 8))

\* C13: the bounding box and the styled bounding box of a Padding are the
\* rectangle with the corners (left - margin_left, top - margin_top) and
\* (right + margin_right, bottom + margin_bottom) of the child's box, the
\* sums saturating at the ends of the i32 range and a degenerate child's
\* bottom-right being its top-left; the two boxes of the crate's tests are
\* as stated.
C13_PaddedBox ==
    (target.kind = "padding" /\ Measured) =>
        /\ result.op = "bounding_box" =>
               IsPadded(result.value, bounding_box(target.child), target)
        /\ result.op = "styled_bounding_box" =>
               IsPadded(result.value, styled_bounding_box(target.child, result.style), target)
        /\ (result.op = "bounding_box" /\ target = Padding_each(2, 12, 57, 9, TestRect)) =>
               /\ result.value.top_left = Point(1, 11)
               /\ Corner(result.value) = Point(26, 77)
        /\ (result.op = "bounding_box" /\ target = Padding_all(-1, TestRect)) =>
               result.value = Rectangle(Point(11, 14), Size(3, 6))

\* the left edge of a padded box was held at I32_MIN and its bottom edge
\* at I32_MAX
C13_Witness ==
    /\ target.kind = "padding" /\ target.child.kind = "rect"
    /\ result.op = "bounding_box" /\ fault = "none"
    /\ target.child.top_left.x - target.left < I32_MIN
    /\ result.value.top_left.x = I32_MIN
    /\ result.value.size.width > target.child.size.width

\* the margins p move an edge of the box past the opposite edge, on the axis
Inverts(child_box, p, axis) ==
    IF axis = "horizontal"
    THEN child_box.top_left.x - p.left > Corner(child_box).x + p.right
    ELSE child_box.top_left.y - p.top > Corner(child_box).y + p.bottom

\* C14: when negative margins move an edge of a Padding's box past the
\* opposite edge, the bounding box has zero extent on that axis, and never
\* a larger extent than the child's box.
C14_InversionIsZeroExtent ==
    (target.kind = "padding" /\ result.op = "bounding_box" /\ fault = "none") =>
        \A axis \in Axes :
            Inverts(bounding_box(target.child), target, axis) =>
                Extent(result.value, axis) = 0

ZeroMargins(p) == p.top = 0 /\ p.right = 0 /\ p.bottom = 0 /\ p.left = 0

\* C15 as stated: the bounding box of Padding::zero(c) is the bounding box
\* of c, also when that box has zero width or zero height.
C15_ZeroPaddingIdentity ==
    (target.kind = "padding" /\ ZeroMargins(target)
     /\ result.op = "bounding_box" /\ fault = "none") =>
        result.value = bounding_box(target.child)

\* C15, amended: the bounding box of Padding::zero(c) is the bounding box of
\* c when that box has neither zero width nor zero height; when it has, the
\* bounding box of Padding::zero(c) is the single pixel at its top-left.
C15_ZeroPaddingAmended ==
    (target.kind = "padding" /\ ZeroMargins(target)
     /\ result.op = "bounding_box" /\ fault = "none") =>
        LET c == bounding_box(target.child)
        IN IF Degenerate(c)
           THEN result.value = Rectangle(c.top_left, Size(1, 1))
           ELSE result.value = c

\* zero padding around a rectangle of zero width and non-zero height
C15_Witness ==
    /\ target.kind = "padding" /\ ZeroMargins(target)
    /\ result.op = "bounding_box" /\ fault = "none"
    /\ target.child.kind = "rect"
    /\ target.child.size.width = 0 /\ target.child.size.height > 1
    /\ result.value = Rectangle(target.child.top_left, Size(1, 1))

\* Padding::all(-n, Padding::all(n, r)) for a rectangle r
IsRoundTrip(p) ==
    /\ p.kind = "padding" /\ p.child.kind = "padding" /\ p.child.child.kind = "rect"
    /\ p.child.right = p.child.top /\ p.child.bottom = p.child.top /\ p.child.left = p.child.top
    /\ p.top = -p.child.top /\ p.right = p.top /\ p.bottom = p.top /\ p.left = p.top

\* no edge inverts in either step of the round trip
NoEdgeInverts(p) ==
    \A axis \in Axes :
        /\ ~Inverts(p.child.child, p.child, axis)
        /\ ~Inverts(bounding_box(p.child), p, axis)

\* no edge of the padded box of the round trip is held at an end of i32
NoEdgeSaturates(p) ==
    LET r == p.child.child
        n == p.child.top
    IN /\ InI32(r.top_left.x - n) /\ InI32(r.top_left.y - n)
       /\ InI32(Corner(r).x + n) /\ InI32(Corner(r).y + n)

\* the round trip gives r back, measured through the nested Padding and
\* through the first bounding box taken as a rectangle
RoundTripRestores(p) ==
    /\ result.value = p.child.child
    /\ bounding_box(Padding_all(p.top, bounding_box(p.child))) = p.child.child

\* C16 as stated: for every rectangle r and every n for which no edge
\* inverts, the bounding box of Padding::all(-n, Padding::all(n, r)) is r.
C16_RoundTrip ==
    (IsRoundTrip(target) /\ result.op = "bounding_box" /\ fault = "none"
     /\ NoEdgeInverts(target)) =>
        RoundTripRestores(target)

\* C16, amended: for every rectangle r of non-zero width and height and
\* every n for which no edge inverts and no edge of the padded box is held
\* at an end of the i32 range, the bounding box of
\* Padding::all(-n, Padding::all(n, r)) is r.
C16_RoundTripAmended ==
    (IsRoundTrip(target) /\ result.op = "bounding_box" /\ fault = "none"
     /\ NoEdgeInverts(target) /\ NoEdgeSaturates(target)
     /\ ~Degenerate(target.child.child)) =>
        RoundTripRestores(target)

\* a rectangle was grown or shrunk by a non-zero margin and restored
C16_Witness ==
    /\ IsRoundTrip(target) /\ result.op = "bounding_box" /\ fault = "none"
    /\ NoEdgeInverts(target) /\ NoEdgeSaturates(target)
    /\ ~Degenerate(target.child.child)
    /\ target.child.top # 0
    /\ bounding_box(target.child) # target.child.child
    /\ result.value = target.child.child

SameMargins(p, q) ==
    p.top = q.top /\ p.right = q.right /\ p.bottom = q.bottom /\ p.left = q.left

\* C17: translate(v) and translate_mut(v) of a Padding both give a Padding
\* with the same four margins around the child moved by v, so that its
\* bounding box is the original one shifted by v; and translate(v) equals
\* what translate_mut(v) makes of a copy.
C17_TranslateKeepsPadding ==
    (last.op \in {"translate", "translate_mut"} /\ last.before.kind = "padding") =>
        /\ target = Padding(last.before.top, last.before.right, last.before.bottom,
                            last.before.left, Shifted(last.before.child, last.by))
        /\ bounding_box(target) = Shifted(bounding_box(last.before), last.by)
        /\ translate(last.before, last.by) = translate_mut(last.before, last.by)

\* C20: the four margins of a Padding are those it was built with after a
\* translate, a translate_mut or an offset of its outline; offset(d) changes
\* the child only, to child.offset(d).
C20_MarginsFixed ==
    (last.op \in {"translate", "translate_mut", "offset"} /\ last.before.kind = "padding") =>
        /\ target.kind = "padding"
        /\ SameMargins(target, last.before)
        /\ last.op = "offset" => target.child = offset_outline(last.before.child, last.off)

---------------------------------------------------------------------------
(* Properties of the spacing strategies *)

\* the sum of f over lo .. hi
RECURSIVE SumOver(_, _, _)
SumOver(f(_), lo, hi) == IF lo > hi THEN 0 ELSE f(lo) + SumOver(f, lo + 1, hi)

\* C18: FixedMargin(gap).modify_measurement(size, count) is size when count
\* is 0 and size + gap * (count - 1) otherwise; Tight.modify_measurement is
\* size; with a negative gap the result is not larger than size.
C18_MeasuredFootprint ==
    result.op = "modify_measurement" =>
        /\ target.kind = "Tight" => result.value = last.measured_size
        /\ target.kind = "FixedMargin" =>
               /\ last.objects = 0 => result.value = last.measured_size
               /\ last.objects > 0 =>
                      result.value = last.measured_size + target.margin * (last.objects - 1)
               /\ target.margin < 0 => result.value <= last.measured_size

\* C19: FixedMargin(g).modify_placement is 0 for the first object and g for
\* every later one, Tight.modify_placement is 0; so for both strategies the
\* measured footprint less the size is the sum of the placements of the
\* objects 0 .. count - 1.
C19_PlacementGaps ==
    /\ result.op = "modify_placement" =>
           result.value = IF target.kind = "FixedMargin" /\ last.n > 0
                          THEN target.margin ELSE 0
    /\ result.op = "modify_measurement" =>
           LET placement(i) == modify_placement(target, i, last.measured_size)
           IN result.value - last.measured_size = SumOver(placement, 0, last.objects - 1)

====
